---- MODULE Spec2Model ----
(***************************************************************************)
(* Model of AlgorandUtil (src/src/index.ts): the group signing engine      *)
(* (generateGroupTransactionSigningRequest) and the submission pipeline    *)
(* (submitSignedTransactions, sendRawTransaction, awaitForConfirmation).   *)
(*                                                                         *)
(* JavaScript values are modelled as records of one shape per kind, so     *)
(* that "undefined", "null" and real values can be told apart:             *)
(*   - a transaction is [body, grp]: its content and its group field       *)
(*     (<<>> while not group-assigned);                                    *)
(*   - bytes and base64 strings are [fmt, body, grp, sig], fmt telling the *)
(*     representation ("bytes", "b64") or "undefined";                     *)
(*   - a wallet slot is [present, addr, sk], sk one of "undefined",        *)
(*     "null" or a key name;                                               *)
(*   - an envelope (SignTxnRequest) is [keys, txn, stxn, message,          *)
(*     signers], keys being the set of own properties of the object.       *)
(***************************************************************************)
EXTENDS Integers, Sequences, FiniteSets, TLC

\* ------------------------------------------------------------- bounds
MaxBatch == 2        \* longest transaction batch drawn as an input
MaxPolls == 3        \* pending-info polls one waiter may issue in the model
MaxStartRound == 1   \* largest last-round the node's status reports
MaxConfirmedRound == 2  \* largest confirmed-round the node reports

Bodies == 1..MaxBatch               \* distinct transaction contents
Keys == {"k1", "k2"}                \* private keys
SkValues == {"undefined", "null"} \cup Keys

\* ------------------------------------------------------------- values
NoGroup == <<>>
Message == "Gradian Transaction Signing Request"
MissingKeyMessage == "Wallet does not have a secret key"
NoError == ""

Undefined == [fmt |-> "undefined", body |-> 0, grp |-> NoGroup, sig |-> "none"]

\* accounts[idx] === undefined
AbsentWallet == [present |-> FALSE, addr |-> "", sk |-> "undefined"]
\* a Wallet object {addr, sk?}
Wallets == {[present |-> TRUE, addr |-> "A", sk |-> s] : s \in SkValues}
FalseyWallets == Wallets \cup {AbsentWallet}

\* freshly built transactions: unsigned and not group-assigned
FreshTxns == [body : Bodies, grp : {NoGroup}]

SeqsUpTo(S, n) == UNION {[1..k -> S] : k \in 1..n}

\* ------------------------------------------------- algosdk, Buffer
\* tx.rawTxID(): the hash of the canonical encoding, which covers every
\* field, the group field included; the hash is modelled as injective.
rawTxID(tx) == <<tx.body, tx.grp>>

RECURSIVE SumBodies(_)
SumBodies(txns) ==
    IF txns = <<>> THEN 0 ELSE Head(txns).body + SumBodies(Tail(txns))

\* a group id that combines the members' ids commutatively
computeGroupIDUnordered(txns) == <<(<<SumBodies(txns), NoGroup>>)>>

\* algosdk.computeGroupID(txns): the hash of the ordered list of the
\* members' transaction ids.
computeGroupID(txns) == [i \in 1..Len(txns) |-> rawTxID(txns[i])]

\* algosdk.assignGroupID(txns): one id for the batch, written into every member
\* (in place: the caller's transaction objects are changed).
assignGroupID(txns) ==
    LET gid == computeGroupID(txns)
    IN  [i \in 1..Len(txns) |-> [txns[i] EXCEPT !.grp = gid]]

\* algosdk.encodeUnsignedTransaction(txn): msgpack bytes of the transaction
encodeUnsignedTransaction(tx) ==
    [fmt |-> "bytes", body |-> tx.body, grp |-> tx.grp, sig |-> "none"]

\* txn.signTxn(sk): msgpack bytes of the signed transaction {sig, txn}
signTxn(tx, sk) ==
    [fmt |-> "bytes", body |-> tx.body, grp |-> tx.grp, sig |-> sk]

\* Buffer.from(bytes).toString("base64")
toBase64(bytes) == [bytes EXCEPT !.fmt = "b64"]

\* a Buffer.from that takes undefined for an empty string
BufferFromNeverThrows(str) == FALSE

\* whether Buffer.from(str, "base64") throws a TypeError: it does for
\* undefined (and null), not for a string
BufferFromThrows(str) == str.fmt = "undefined"

\* new Uint8Array(Buffer.from(str, "base64")) for a string
fromBase64(str) == [str EXCEPT !.fmt = "bytes"]

\* ------------------------------------- generateGroupTransactionSigningRequest
\* accounts[idx]?.sk
OptionalSk(account) == IF account.present THEN account.sk ELSE "undefined"

\* accounts[idx] !== undefined: the test on the wallet instead of on its key
WalletIsDefined(account) == account.present

\* accounts[idx]?.sk !== undefined   (index.ts line 123)
SkIsDefined(account) == OptionalSk(account) # "undefined"

\* !wallet.sk   (index.ts line 126)
SkIsFalsy(wallet) == wallet.sk \in {"undefined", "null"}

\* a slot signed locally, index.ts lines 125-144, without its signers entry
SignedEnvelopeNoSigners(txns, accounts, idx) ==
    [keys    |-> {"stxn", "txn", "message"},
     stxn    |-> toBase64(signTxn(txns[idx], accounts[idx].sk)),
     txn     |-> toBase64(encodeUnsignedTransaction(txns[idx])),
     message |-> Message,
     signers |-> <<>>]

\* a slot signed locally, index.ts lines 125-144, with the key of slot 0
SignedEnvelopeFirstKey(txns, accounts, idx) ==
    [keys    |-> {"stxn", "txn", "message", "signers"},
     stxn    |-> toBase64(signTxn(txns[idx], accounts[1].sk)),
     txn     |-> toBase64(encodeUnsignedTransaction(txns[idx])),
     message |-> Message,
     signers |-> <<>>]

\* the envelope pushed for a slot signed locally (index.ts lines 125-144)
SignedEnvelope(txns, accounts, idx) ==
    [keys    |-> {"stxn", "txn", "message", "signers"},
     stxn    |-> toBase64(signTxn(txns[idx], accounts[idx].sk)),
     txn     |-> toBase64(encodeUnsignedTransaction(txns[idx])),
     message |-> Message,
     signers |-> <<>>]

\* the envelope pushed for a slot left to an external signer (lines 146-152)
UnsignedEnvelope(txns, idx) ==
    [keys    |-> {"txn", "message"},
     stxn    |-> Undefined,
     txn     |-> toBase64(encodeUnsignedTransaction(txns[idx])),
     message |-> Message,
     signers |-> <<>>]

\* the for loop of lines 122-154, from index idx with stxns built so far;
\* a throw abandons the array
RECURSIVE SignLoop(_, _, _, _)
SignLoop(txns, accounts, idx, stxns) ==
    IF idx > Len(txns)
    THEN [error |-> NoError, value |-> stxns]
    ELSE IF SkIsDefined(accounts[idx])
         THEN IF SkIsFalsy(accounts[idx])
              THEN [error |-> MissingKeyMessage, value |-> <<>>]
              ELSE SignLoop(txns, accounts, idx + 1,
                            Append(stxns, SignedEnvelope(txns, accounts, idx)))
         ELSE SignLoop(txns, accounts, idx + 1,
                       Append(stxns, UnsignedEnvelope(txns, idx)))

\* the call with the slots encoded from the transactions as they were before
\* assignGroupID
GenerateEncodingUngrouped(txns, accounts) ==
    LET grouped == assignGroupID(txns)
        r == SignLoop(txns, accounts, 1, <<>>)
    IN  [txns |-> grouped, error |-> r.error, value |-> r.value]

\* The whole call: [txns: the caller's transactions after the call,
\* error, value].
generateGroupTransactionSigningRequest(txns, accounts) ==
    LET grouped == assignGroupID(txns)
        r == SignLoop(grouped, accounts, 1, <<>>)
    IN  [txns |-> grouped, error |-> r.error, value |-> r.value]

\* ----------------------------------------------------- the ledger node
\* JavaScript values of pendingInfo["confirmed-round"]
JsNull == [t |-> "null", n |-> 0]
JsUndefined == [t |-> "undefined", n |-> 0]
JsNumber(k) == [t |-> "number", n |-> k]
ConfirmedRoundValues ==
    {JsNull, JsUndefined} \cup {JsNumber(k) : k \in 0..MaxConfirmedRound}

\* a pendingTransactionInformation response
PendingInfos == [confirmedRound : ConfirmedRoundValues]
NoResponse == [confirmedRound |-> [t |-> "none", n |-> 0]]

TxIds == {"TX1", "TX2"}
NoTxId == ""

\* one request to the node, with what it answered
NodeCall(op, batch, id, round, resp) ==
    [op |-> op, batch |-> batch, txId |-> id, round |-> round, resp |-> resp]

\* x !== null   (index.ts line 52)
NotNull(x) == x.t # "null"

\* x >= 0 in place of x > 0
GreaterOrEqualZero(x) == x.t = "number" /\ x.n >= 0

\* x > 0   (index.ts line 53): undefined compares as NaN, null as 0
GreaterThanZero(x) == x.t = "number" /\ x.n > 0

\* the condition with || in place of &&
IsConfirmedEither(pendingInfo) ==
    \/ NotNull(pendingInfo.confirmedRound)
    \/ GreaterThanZero(pendingInfo.confirmedRound)

\* the condition of the if of awaitForConfirmation (index.ts lines 51-54)
IsConfirmed(pendingInfo) ==
    /\ NotNull(pendingInfo.confirmedRound)
    /\ GreaterThanZero(pendingInfo.confirmedRound)

\* ----------------------------------------------- submitSignedTransactions
\* signedTxns.map(...) throws when Buffer.from does (index.ts lines 168-170)
DecodeThrows(signedTxns) ==
    \E i \in 1..Len(signedTxns) : BufferFromThrows(signedTxns[i].stxn)

\* the Uint8Array[] built by signedTxns.map (index.ts lines 168-170)
DecodeAll(signedTxns) ==
    [i \in 1..Len(signedTxns) |-> fromBase64(signedTxns[i].stxn)]

\* the envelope batches handed to submitSignedTransactions: what
\* generateGroupTransactionSigningRequest returns for wallets absent or keyed
SubmitInputs ==
    {generateGroupTransactionSigningRequest(txns, accounts).value :
        <<txns, accounts>> \in
            UNION {{<<tx, ac>> :
                      ac \in [1..Len(tx) ->
                                {AbsentWallet,
                                 [present |-> TRUE, addr |-> "A", sk |-> "k1"]}]} :
                   tx \in SeqsUpTo(FreshTxns, MaxBatch)}}

\* ------------------------------------------------------------- state
VARIABLES
    gPc,        \* "idle" | "returned" | "threw": the engine's caller
    gInput,     \* the transactions as passed in (not group-assigned)
    gTxns,      \* the caller's transaction objects after the call
    gAccounts,  \* the accounts argument
    gStxns,     \* the returned envelopes
    gError,     \* the message of the Error thrown, or NoError
    prevInput,  \* gInput of the call before (<<>> if none)
    prevGroup,  \* the group id that call assigned
    sPc,        \* submission flow: "idle" | "start" | "status" | "poll" |
                \*   "wait" | "refetch" | "done" | "failed"
    signedTxns, \* the argument of submitSignedTransactions
    nodeLog,    \* every request the node has seen, in order
    txId,       \* the id the broadcast returned
    lastRound,  \* awaitForConfirmation's tracked round
    sError,     \* the error the flow failed with
    sResult,    \* the value submitSignedTransactions returned
    signer,     \* the Signer object: its kind, connector and wallet
    wPc,        \* "idle" | "returned" | "threw": the signer's caller
    wOp,        \* the method called: "sign" | "getWalletAddress"
    wInput,     \* txnsToSign as passed to sign
    wAfter,     \* the same array after the call
    wResponse,  \* what connector.sendCustomRequest resolved to
    wRequests,  \* the requests sent through the connector, in order
    wOutput,    \* the array sign returned
    wAddress,   \* what getWalletAddress returned
    wError,     \* the error the call threw
    rPc,        \* "idle" | "returned" | "threw": the state reader's caller
    rOp,        \* "getGlobalStateValue" | "getLocalStateValue"
    rGlobalState, \* params["global-state"] as the node reported it
    rLocalState,  \* info["apps-local-state"] as the node reported it
    rAppIndex,  \* the application asked about
    rKey,       \* b64VarName
    rResult,    \* the value the read returned
    rError,     \* the message of the Error the read threw
    tPc,        \* assetsTransfer: "idle" | "awaiting" | "returned" | "rejected"
    tWallet,    \* from_wallet
    tAssets,    \* the assetIndex of each element of assets
    tFlows,     \* per asset, its assetTransfer call: pc, stxns, error
    tNodeLog,   \* every request the calls made of the node, in order
    tResult,    \* what assetsTransfer resolved to
    tError,     \* what assetsTransfer rejected with
    cPc,        \* commonApplicationOptIntoAssets: "idle" | "awaiting" |
                \*   "returned" | "rejected"
    cWallet,    \* serverWallet
    cFlows,     \* per asset, its commonApplicationOptIntoAsset call
    nRound,     \* the node's last round
    nTxs        \* the node's record of each transaction id

gvars == <<gPc, gInput, gTxns, gAccounts, gStxns, gError, prevInput, prevGroup>>

svars == <<sPc, signedTxns, nodeLog, txId, lastRound, sError, sResult>>

wvars == <<signer, wPc, wOp, wInput, wAfter, wResponse, wRequests, wOutput,
           wAddress, wError>>

rvars == <<rPc, rOp, rGlobalState, rLocalState, rAppIndex, rKey, rResult, rError>>

tvars == <<tPc, tWallet, tAssets, tFlows, tNodeLog, tResult, tError>>

cvars == <<cPc, cWallet, cFlows, nRound, nTxs>>

vars == <<gPc, gInput, gTxns, gAccounts, gStxns, gError, prevInput, prevGroup,
          sPc, signedTxns, nodeLog, txId, lastRound, sError, sResult,
          signer, wPc, wOp, wInput, wAfter, wResponse, wRequests, wOutput,
          wAddress, wError,
          rPc, rOp, rGlobalState, rLocalState, rAppIndex, rKey, rResult, rError,
          tPc, tWallet, tAssets, tFlows, tNodeLog, tResult, tError,
          cPc, cWallet, cFlows, nRound, nTxs>>

\* what the actions of one component leave alone
notSign == <<svars, wvars, rvars, tvars, cvars>>
notSubmit == <<gvars, wvars, rvars, tvars, cvars>>
notSigner == <<gvars, svars, rvars, tvars, cvars>>
notReader == <<gvars, svars, wvars, tvars, cvars>>
notTransfer == <<gvars, svars, wvars, rvars, cvars>>
notConcurrent == <<gvars, svars, wvars, rvars, tvars>>

GInit ==
    /\ gPc = "idle"
    /\ gInput = <<>>
    /\ gTxns = <<>>
    /\ gAccounts = <<>>
    /\ gStxns = <<>>
    /\ gError = NoError
    /\ prevInput = <<>>
    /\ prevGroup = NoGroup

\* a caller passes a fresh batch and one wallet slot per transaction
Generate ==
    /\ gPc = "idle"
    /\ \E txns \in SeqsUpTo(FreshTxns, MaxBatch) :
       \E accounts \in [1..Len(txns) -> FalseyWallets] :
          LET r == generateGroupTransactionSigningRequest(txns, accounts)
          IN  /\ gInput' = txns
              /\ gAccounts' = accounts
              /\ gTxns' = r.txns
              /\ gStxns' = r.value
              /\ gError' = r.error
              /\ gPc' = IF r.error = NoError THEN "returned" ELSE "threw"
    /\ UNCHANGED <<prevInput, prevGroup>>
    /\ UNCHANGED notSign

\* the caller is done with the result and may call again
NextCall ==
    /\ gPc \in {"returned", "threw"}
    /\ prevInput' = gInput
    /\ prevGroup' = gTxns[1].grp
    /\ gPc' = "idle"
    /\ gInput' = <<>>
    /\ gTxns' = <<>>
    /\ gAccounts' = <<>>
    /\ gStxns' = <<>>
    /\ gError' = NoError
    /\ UNCHANGED notSign

\* ------------------------------------------------- submission pipeline
\* no submission in progress
SIdle ==
    /\ sPc = "idle"
    /\ signedTxns = <<>>
    /\ nodeLog = <<>>
    /\ txId = NoTxId
    /\ lastRound = 0
    /\ sError = NoError
    /\ sResult = NoResponse

\* a caller is about to submit a batch of envelopes
SInit ==
    /\ sPc = "start"
    /\ signedTxns \in SubmitInputs
    /\ nodeLog = <<>>
    /\ txId = NoTxId
    /\ lastRound = 0
    /\ sError = NoError
    /\ sResult = NoResponse

PendingCalls == SelectSeq(nodeLog, LAMBDA c : c.op = "pendingTransactionInformation")

\* polls issued by awaitForConfirmation (the re-fetch of sendRawTransaction
\* is issued in state "refetch" and leads to "done")
WaiterPolls == IF sPc = "done" THEN SubSeq(PendingCalls, 1, Len(PendingCalls) - 1)
               ELSE PendingCalls

\* submitSignedTransactions up to the answer of the broadcast
\* (index.ts lines 165-171 and 71-72)
SubmitSignedTransactions ==
    /\ sPc = "start"
    /\ IF DecodeThrows(signedTxns)
       THEN /\ sPc' = "failed"
            /\ sError' = "TypeError"
            /\ UNCHANGED <<nodeLog, txId>>
       ELSE \/ \E id \in TxIds :
                 /\ nodeLog' = Append(nodeLog,
                        NodeCall("sendRawTransaction", DecodeAll(signedTxns),
                                 NoTxId, 0, NoResponse))
                 /\ txId' = id
                 /\ sPc' = "status"
                 /\ UNCHANGED sError
            \/ /\ nodeLog' = Append(nodeLog,
                        NodeCall("sendRawTransaction", DecodeAll(signedTxns),
                                 NoTxId, 0, NoResponse))
               /\ sPc' = "failed"
               /\ sError' = "NodeError"
               /\ UNCHANGED txId
    /\ UNCHANGED <<signedTxns, lastRound, sResult>>
    /\ UNCHANGED notSubmit

\* awaitForConfirmation, lines 45-46: read the node's last round
ReadStatus ==
    /\ sPc = "status"
    /\ \E r \in 0..MaxStartRound :
          /\ nodeLog' = Append(nodeLog, NodeCall("status", <<>>, NoTxId, r, NoResponse))
          /\ lastRound' = r
    /\ sPc' = "poll"
    /\ UNCHANGED <<signedTxns, txId, sError, sResult>>
    /\ UNCHANGED notSubmit

\* the poll without the lastRound++ of line 58
PollKeepingRound ==
    /\ sPc = "poll"
    /\ Len(PendingCalls) < MaxPolls
    /\ \E info \in PendingInfos :
          /\ nodeLog' = Append(nodeLog,
                 NodeCall("pendingTransactionInformation", <<>>, txId, 0, info))
          /\ sPc' = IF IsConfirmed(info) THEN "refetch" ELSE "wait"
    /\ UNCHANGED <<signedTxns, txId, lastRound, sError, sResult>>
    /\ UNCHANGED notSubmit

\* awaitForConfirmation, lines 48-58: one poll and the test of its answer
Poll ==
    /\ sPc = "poll"
    /\ Len(PendingCalls) < MaxPolls
    /\ \E info \in PendingInfos :
          /\ nodeLog' = Append(nodeLog,
                 NodeCall("pendingTransactionInformation", <<>>, txId, 0, info))
          /\ IF IsConfirmed(info)
             THEN /\ sPc' = "refetch"
                  /\ UNCHANGED lastRound
             ELSE /\ sPc' = "wait"
                  /\ lastRound' = lastRound + 1
    /\ UNCHANGED <<signedTxns, txId, sError, sResult>>
    /\ UNCHANGED notSubmit

\* the wait of line 59 preceded by a second broadcast of the batch
WaitBlockResending ==
    /\ sPc = "wait"
    /\ nodeLog' = nodeLog \o
           <<NodeCall("sendRawTransaction", DecodeAll(signedTxns), NoTxId, 0, NoResponse),
             NodeCall("statusAfterBlock", <<>>, NoTxId, lastRound, NoResponse)>>
    /\ sPc' = "poll"
    /\ UNCHANGED <<signedTxns, txId, lastRound, sError, sResult>>
    /\ UNCHANGED notSubmit

\* awaitForConfirmation, line 59: wait for the tracked round
WaitBlock ==
    /\ sPc = "wait"
    /\ nodeLog' = Append(nodeLog,
           NodeCall("statusAfterBlock", <<>>, NoTxId, lastRound, NoResponse))
    /\ sPc' = "poll"
    /\ UNCHANGED <<signedTxns, txId, lastRound, sError, sResult>>
    /\ UNCHANGED notSubmit

\* sendRawTransaction, lines 76-88: re-fetch the record and return it
Refetch ==
    /\ sPc = "refetch"
    /\ \E info \in PendingInfos :
          /\ nodeLog' = Append(nodeLog,
                 NodeCall("pendingTransactionInformation", <<>>, txId, 0, info))
          /\ sResult' = info
    /\ sPc' = "done"
    /\ UNCHANGED <<signedTxns, txId, lastRound, sError>>
    /\ UNCHANGED notSubmit

\* ------------------------------------------------------ specifications
\* no Signer in use
WIdle ==
    /\ signer = [kind |-> "none", connector |-> [present |-> FALSE,
                     hasAccounts |-> FALSE, accounts |-> <<>>, connected |-> FALSE],
                 wallet |-> AbsentWallet]
    /\ wPc = "idle"
    /\ wOp = "none"
    /\ wInput = <<>>
    /\ wAfter = <<>>
    /\ wResponse = <<>>
    /\ wRequests = <<>>
    /\ wOutput = <<>>
    /\ wAddress = ""
    /\ wError = NoError

\* no read of application state was made
RIdle ==
    /\ rPc = "idle"
    /\ rOp = "none"
    /\ rGlobalState = <<>>
    /\ rLocalState = <<>>
    /\ rAppIndex = 0
    /\ rKey = ""
    /\ rResult = [kind |-> "none", val |-> 0]
    /\ rError = NoError

\* assetsTransfer was not called
TIdle ==
    /\ tPc = "idle"
    /\ tWallet = AbsentWallet
    /\ tAssets = <<>>
    /\ tFlows = <<>>
    /\ tNodeLog = <<>>
    /\ tResult = "none"
    /\ tError = NoError

\* commonApplicationOptIntoAssets was not called
CIdle ==
    /\ cPc = "idle"
    /\ cWallet = AbsentWallet
    /\ cFlows = <<>>
    /\ nRound = 0
    /\ nTxs = <<>>

SignInit == GInit /\ SIdle /\ WIdle /\ RIdle /\ TIdle /\ CIdle

SignNext == Generate \/ NextCall

SpecSign == SignInit /\ [][SignNext]_vars

SubmitInit == GInit /\ SInit /\ WIdle /\ RIdle /\ TIdle /\ CIdle

SubmitNext == SubmitSignedTransactions \/ ReadStatus \/ Poll \/ WaitBlock \/ Refetch

SpecSubmit == SubmitInit /\ [][SubmitNext]_vars

\* ------------------------------------------------------------ properties
\* a wallet object that carries a private key
HasKey(account) == account.present /\ account.sk \in Keys

\* the transaction a base64 string of an envelope encodes
\* (Buffer.from(e.txn, "base64") then algosdk.decodeUnsignedTransaction)
decodeUnsignedTransaction(str) == [body |-> str.body, grp |-> str.grp]

\* C1: in the array generateGroupTransactionSigningRequest returns, a slot
\* whose wallet carries a private key has stxn set and signers = [], and a
\* slot whose wallet is absent has no stxn and no signers property.
C1_SlotShape ==
    gPc = "returned" =>
        /\ Len(gStxns) = Len(gAccounts)
        /\ \A i \in 1..Len(gAccounts) :
              /\ HasKey(gAccounts[i]) =>
                    /\ "stxn" \in gStxns[i].keys
                    /\ gStxns[i].stxn.fmt = "b64"
                    /\ gStxns[i].stxn.sig = gAccounts[i].sk
                    /\ "signers" \in gStxns[i].keys
                    /\ gStxns[i].signers = <<>>
              /\ ~gAccounts[i].present =>
                    /\ "stxn" \notin gStxns[i].keys
                    /\ gStxns[i].stxn = Undefined
                    /\ "signers" \notin gStxns[i].keys

\* a returned batch with a keyed slot next to an absent one
C1_Witness ==
    /\ gPc = "returned"
    /\ Len(gAccounts) = 2
    /\ ~gAccounts[1].present
    /\ HasKey(gAccounts[2])

\* C2 (as claimed): whenever some slot holds a present wallet without a
\* private key (sk undefined, null or otherwise missing), the call fails with
\* the missing-key error.
C2_MissingKeyAlwaysFails ==
    (gPc # "idle" /\ \E i \in 1..Len(gAccounts) :
                        gAccounts[i].present /\ gAccounts[i].sk \notin Keys)
        => (gPc = "threw" /\ gError = MissingKeyMessage)

\* C2 (amended): the call fails, with the missing-key error, exactly when
\* some present wallet has an sk that is defined but falsy (null); a present
\* wallet whose sk is undefined does not make it fail, and its slot comes
\* back unsigned, like an absent wallet's.
C2_MissingKeyFailsUnlessUndefined ==
    gPc # "idle" =>
        /\ (gPc = "threw") <=>
              (\E i \in 1..Len(gAccounts) :
                  gAccounts[i].present /\ gAccounts[i].sk = "null")
        /\ (gPc = "threw") <=> (gError = MissingKeyMessage)
        /\ gPc = "threw" => gStxns = <<>>
        /\ gPc = "returned" =>
              /\ Len(gStxns) = Len(gAccounts)
              /\ \A i \in 1..Len(gAccounts) :
                    (gAccounts[i].present /\ gAccounts[i].sk = "undefined") =>
                        /\ "stxn" \notin gStxns[i].keys
                        /\ "signers" \notin gStxns[i].keys

\* the call threw at the second slot, after the first was signed
C2_Witness ==
    /\ gPc = "threw"
    /\ Len(gAccounts) = 2
    /\ HasKey(gAccounts[1])
    /\ gAccounts[2].present /\ gAccounts[2].sk = "null"

\* C8: one group id, that of the entire ordered input batch, is in every
\* caller transaction and in the txn and (when present) stxn of every
\* envelope; the output has the length and order of the input.
C8_GroupEmbedded ==
    gPc = "returned" =>
        LET gid == [i \in 1..Len(gInput) |-> <<gInput[i].body, NoGroup>>]
            member(i) == [body |-> gInput[i].body, grp |-> gid]
        IN  /\ Len(gStxns) = Len(gInput)
            /\ Len(gTxns) = Len(gInput)
            /\ \A i \in 1..Len(gInput) :
                  /\ gTxns[i] = member(i)
                  /\ "txn" \in gStxns[i].keys
                  /\ gStxns[i].txn.fmt = "b64"
                  /\ decodeUnsignedTransaction(gStxns[i].txn) = member(i)
                  /\ "stxn" \in gStxns[i].keys =>
                        decodeUnsignedTransaction(gStxns[i].stxn) = member(i)

\* a returned batch of two different transactions, one signed, one not
C8_Witness ==
    /\ gPc = "returned"
    /\ Len(gInput) = 2
    /\ gInput[1].body # gInput[2].body
    /\ "stxn" \in gStxns[1].keys
    /\ "stxn" \notin gStxns[2].keys

\* s and t hold the same members, in a different order
IsReordering(s, t) ==
    /\ Len(s) = Len(t)
    /\ s # t
    /\ \E p \in [1..Len(s) -> 1..Len(s)] :
          /\ \A i, j \in 1..Len(s) : i # j => p[i] # p[j]
          /\ \A i \in 1..Len(s) : t[i] = s[p[i]]

AllDistinct(s) == \A i, j \in 1..Len(s) : i # j => s[i] # s[j]

C10_BatchSafe ==
    gPc = "returned" =>
        \A i \in 1..Len(gInput) :
            HasKey(gAccounts[i]) =>
                \A others \in [1..Len(gInput) -> FalseyWallets] :
                    LET r == generateGroupTransactionSigningRequest(gInput, others)
                    IN  (others[i] = gAccounts[i] /\ r.error = NoError) =>
                            /\ Len(r.value) = Len(gStxns)
                            /\ r.value[i] = gStxns[i]

\* a keyed second slot in a batch whose first slot is left to another signer
C10_Witness ==
    /\ gPc = "returned"
    /\ Len(gInput) = 2
    /\ HasKey(gAccounts[2])
    /\ gAccounts[1] # gAccounts[2]
    /\ "stxn" \notin gStxns[1].keys

\* the confirmed-round of a response is a number above zero
PositiveRound(call) ==
    /\ call.resp.confirmedRound.t = "number"
    /\ call.resp.confirmedRound.n >= 1

\* the waiter has returned to sendRawTransaction
WaiterReturned == sPc \in {"refetch", "done"}

\* C3: the submission fails in decoding (the TypeError of Buffer.from) if and
\* only if some envelope lacks stxn, and then the node has seen no request.
C3_FailsBeforeNetwork ==
    sPc # "start" =>
        /\ (sError = "TypeError") <=>
              (\E i \in 1..Len(signedTxns) : "stxn" \notin signedTxns[i].keys)
        /\ sError = "TypeError" => (sPc = "failed" /\ nodeLog = <<>>)

\* a batch of two, one envelope signed and one not, was refused
C3_Witness ==
    /\ sPc = "failed"
    /\ sError = "TypeError"
    /\ Len(signedTxns) = 2
    /\ "stxn" \in signedTxns[1].keys
    /\ "stxn" \notin signedTxns[2].keys

\* C4: when awaitForConfirmation has returned, the answer to its most recent
\* poll had a confirmed-round that is a number above zero (not null, not
\* missing, not 0).
C4_ReturnsOnlyOnPositiveRound ==
    WaiterReturned =>
        /\ Len(WaiterPolls) >= 1
        /\ PositiveRound(WaiterPolls[Len(WaiterPolls)])

\* the waiter returned after polls answered null, missing or 0
C4_Witness ==
    /\ sPc = "refetch"
    /\ Len(WaiterPolls) = MaxPolls
    /\ \E k \in 1..Len(WaiterPolls) : WaiterPolls[k].resp.confirmedRound = JsNumber(0)
    /\ \E k \in 1..Len(WaiterPolls) : WaiterPolls[k].resp.confirmedRound.t # "number"

\* the bound a caller would hand the waiter
WaitBound == MaxPolls - 1

\* C5 (as claimed): once the waiter has seen as many unconfirmed polls as its
\* bound allows, it is in the TIMEOUT state (and no longer polling).
C5_TimesOutAtBound ==
    (sPc \in {"poll", "wait"} /\ Len(WaiterPolls) >= WaitBound) => sPc = "timeout"

\* C6: against a node that answers the first N polls without a confirmed
\* round and poll N+1 with a positive one, the waiter returns after exactly
\* N+1 polls: it is still waiting while only unconfirmed answers came, and no
\* poll follows a confirmed answer.
C6_ExactlyNPlusOnePolls ==
    LET polls == WaiterPolls
        N == Cardinality({k \in 1..Len(polls) : ~PositiveRound(polls[k])})
    IN  /\ \A k \in 1..(Len(polls) - 1) : ~PositiveRound(polls[k])
        /\ WaiterReturned => Len(polls) = N + 1
        /\ sPc \in {"poll", "wait"} => Len(polls) = N
        /\ sPc = "wait" => Len(polls) >= 1

\* the waiter returned at the third poll, after two unconfirmed ones
C6_Witness ==
    /\ WaiterReturned
    /\ Len(WaiterPolls) = 3
    /\ ~PositiveRound(WaiterPolls[1])
    /\ ~PositiveRound(WaiterPolls[2])

\* C7: the node sees at most one broadcast, as its first request, carrying
\* the decoded batch in input order; every poll is for the id it returned;
\* the value returned is the record re-fetched last, after a poll that
\* reported confirmation.
C7_OneBroadcastThenRefetch ==
    LET sends == {k \in 1..Len(nodeLog) : nodeLog[k].op = "sendRawTransaction"}
        n == Len(nodeLog)
    IN  /\ sends \subseteq {1}
        /\ nodeLog # <<>> => sends = {1}
        /\ sPc \in {"status", "poll", "wait", "refetch", "done"} => sends = {1}
        /\ sends = {1} =>
              /\ Len(nodeLog[1].batch) = Len(signedTxns)
              /\ \A i \in 1..Len(signedTxns) :
                    /\ nodeLog[1].batch[i].fmt = "bytes"
                    /\ nodeLog[1].batch[i].body = signedTxns[i].stxn.body
                    /\ nodeLog[1].batch[i].grp = signedTxns[i].stxn.grp
                    /\ nodeLog[1].batch[i].sig = signedTxns[i].stxn.sig
        /\ \A k \in 1..n :
              nodeLog[k].op = "pendingTransactionInformation" => nodeLog[k].txId = txId
        /\ sPc # "done" => sResult = NoResponse
        /\ sPc = "done" =>
              /\ n >= 4
              /\ nodeLog[n].op = "pendingTransactionInformation"
              /\ sResult = nodeLog[n].resp
              /\ nodeLog[n - 1].op = "pendingTransactionInformation"
              /\ PositiveRound(nodeLog[n - 1])

\* a batch of two was submitted, confirmed at the second poll, and the
\* re-fetched record differs from the one the waiter saw
C7_Witness ==
    /\ sPc = "done"
    /\ Len(signedTxns) = 2
    /\ signedTxns[1].stxn.body # signedTxns[2].stxn.body
    /\ Len(PendingCalls) = 3
    /\ sResult # nodeLog[Len(nodeLog) - 1].resp

\* ================================================================ Signers
\* (src/src/signer/WalletConnectSigner.ts: WalletConnectSigner, lines 1-71,
\* KeyPairSigner, lines 73-111)

\* JavaScript null where a string or bytes may stand
NullValue == [fmt |-> "null", body |-> 0, grp |-> NoGroup, sig |-> "none"]

\* the truthiness of a string-or-undefined-or-null value: the strings of
\* the model are never empty
Truthy(x) == x.fmt \notin {"undefined", "null"}

\* an envelope as the signers see it: the object may carry a further,
\* private property "tag"
SignerEnvelope(e, keys, stxn, tag) ==
    [keys |-> keys, txn |-> e.txn, stxn |-> stxn, message |-> e.message,
     signers |-> e.signers, tag |-> tag]

\* the key of the remote wallet, and the key of an earlier external signer
RemoteKey == "kr"
EarlierKey == "ke"

\* the batches handed to sign: what generateGroupTransactionSigningRequest
\* returned for a batch, slots without stxn either left so or completed by
\* an earlier signer, the objects with or without a private property
SignerInputs ==
    UNION {
      UNION {
        UNION {
          { [i \in 1..n |->
               LET e == generateGroupTransactionSigningRequest(
                            [j \in 1..n |-> [body |-> j, grp |-> NoGroup]], ac).value[i]
                   done == "stxn" \notin e.keys /\ completed[i]
               IN  SignerEnvelope(e,
                       e.keys \cup (IF done THEN {"stxn"} ELSE {})
                              \cup (IF tag = "" THEN {} ELSE {"tag"}),
                       IF done
                       THEN toBase64(signTxn(decodeUnsignedTransaction(e.txn), EarlierKey))
                       ELSE e.stxn,
                       tag)] : tag \in {"", "private"} }
          : completed \in [1..n -> BOOLEAN] }
        : ac \in [1..n -> {AbsentWallet, [present |-> TRUE, addr |-> "A", sk |-> "k1"]}] }
      : n \in 1..MaxBatch }

\* what the remote wallet may put at position i of its answer: null, or the
\* transaction of that position signed with its key
RemoteEntry(txnsToSign, i) ==
    IF i <= Len(txnsToSign)
    THEN toBase64(signTxn(decodeUnsignedTransaction(txnsToSign[i].txn), RemoteKey))
    ELSE toBase64(signTxn([body |-> 0, grp |-> NoGroup], RemoteKey))

\* the answers of connector.sendCustomRequest: arrays up to one entry longer
\* than the request
Responses(txnsToSign) ==
    UNION { { r \in [1..k -> {NullValue} \cup {RemoteEntry(txnsToSign, i) : i \in 1..k}] :
                \A i \in 1..k : r[i] \in {NullValue, RemoteEntry(txnsToSign, i)} }
            : k \in 0..(Len(txnsToSign) + 1) }

\* validParams with stxn let through
ValidParamsWithStxn == {"signers", "txn", "message", "stxn"}

\* validParams (WalletConnectSigner.ts line 15)
ValidParams == {"signers", "txn", "message"}

\* the object built for one envelope (lines 16-24): the listed own
\* properties are copied, nothing else is set
CleanEnvelope(e) ==
    LET kept == e.keys \cap ValidParams
    IN  [keys    |-> kept,
         txn     |-> IF "txn" \in kept THEN e.txn ELSE Undefined,
         stxn    |-> IF "stxn" \in kept THEN e.stxn ELSE Undefined,
         message |-> IF "message" \in kept THEN e.message ELSE "",
         signers |-> IF "signers" \in kept THEN e.signers ELSE <<>>,
         tag     |-> IF "tag" \in kept THEN e.tag ELSE ""]

\* requestTxnsToSign (lines 16-24), the params of the one request
RequestTxnsToSign(txnsToSign) ==
    [i \in 1..Len(txnsToSign) |-> CleanEnvelope(txnsToSign[i])]

\* the merge loop of getSignedB64Txns (lines 32-36), from index i: a falsy
\* entry is replaced by txnsToSign[i].stxn; past the end of txnsToSign that
\* read throws a TypeError
RECURSIVE MergeLoop(_, _, _)
MergeLoop(b64EncodedResult, txnsToSign, i) ==
    IF i > Len(b64EncodedResult)
    THEN [error |-> NoError, value |-> b64EncodedResult]
    ELSE IF ~Truthy(b64EncodedResult[i])
         THEN IF i > Len(txnsToSign)
              THEN [error |-> "TypeError", value |-> <<>>]
              ELSE MergeLoop([b64EncodedResult EXCEPT ![i] = txnsToSign[i].stxn],
                             txnsToSign, i + 1)
         ELSE MergeLoop(b64EncodedResult, txnsToSign, i + 1)

\* getSignedB64Txns after the answer arrived (lines 31-38)
getSignedB64Txns(txnsToSign, response) == MergeLoop(response, txnsToSign, 1)

\* WalletConnectSigner.sign (lines 41-53) for an answer of the connector
WalletConnectSign(txnsToSign, response) ==
    LET m == getSignedB64Txns(txnsToSign, response)
    IN  IF m.error # NoError
        THEN [error |-> m.error, value |-> <<>>]
        ELSE [error |-> NoError,
              value |-> [i \in 1..Len(m.value) |->
                           IF Truthy(m.value[i]) THEN fromBase64(m.value[i])
                           ELSE NullValue]]

\* KeyPairSigner.sign that signs every envelope anew
KeyPairSignAll(wallet, txnsToSign) ==
    [i \in 1..Len(txnsToSign) |->
        signTxn(decodeUnsignedTransaction(fromBase64(txnsToSign[i].txn)), wallet.sk)]

\* KeyPairSigner.sign (lines 88-106)
KeyPairSign(wallet, txnsToSign) ==
    [i \in 1..Len(txnsToSign) |->
        IF Truthy(txnsToSign[i].stxn)
        THEN fromBase64(txnsToSign[i].stxn)
        ELSE signTxn(decodeUnsignedTransaction(fromBase64(txnsToSign[i].txn)),
                     wallet.sk)]

\* the walletConnectConnector objects a signer may be built on
NoConnector ==
    [present |-> FALSE, hasAccounts |-> FALSE, accounts |-> <<>>, connected |-> FALSE]
Connectors ==
    {NoConnector} \cup
    [present : {TRUE}, hasAccounts : {FALSE}, accounts : {<<>>}, connected : BOOLEAN] \cup
    [present : {TRUE}, hasAccounts : {TRUE},
     accounts : {<<>>, <<"A">>, <<"B", "A">>}, connected : BOOLEAN]

NoAddress == "undefined"

\* getWalletAddress without the test of connected
getWalletAddressIgnoringConnected(c) ==
    IF ~c.present THEN NoAddress
    ELSE IF ~c.hasAccounts THEN NoAddress
    ELSE IF Len(c.accounts) <= 0 THEN NoAddress
    ELSE c.accounts[1]

\* WalletConnectSigner.getWalletAddress (lines 55-70)
getWalletAddress(c) ==
    IF ~c.present THEN NoAddress
    ELSE IF ~c.hasAccounts THEN NoAddress
    ELSE IF Len(c.accounts) <= 0 THEN NoAddress
    ELSE IF ~c.connected THEN NoAddress
    ELSE c.accounts[1]

\* the Signer objects: a WalletConnectSigner on a connector, or a
\* KeyPairSigner on a wallet with a secret key (its constructor throws
\* otherwise, lines 80-87)
Signers ==
    [kind : {"walletconnect"}, connector : Connectors, wallet : {AbsentWallet}] \cup
    [kind : {"keypair"}, connector : {NoConnector},
     wallet : {[present |-> TRUE, addr |-> "A", sk |-> k] : k \in Keys}]

WInit ==
    /\ signer \in Signers
    /\ wPc = "idle"
    /\ wOp = "none"
    /\ wInput = <<>>
    /\ wAfter = <<>>
    /\ wResponse = <<>>
    /\ wRequests = <<>>
    /\ wOutput = <<>>
    /\ wAddress = ""
    /\ wError = NoError

\* WalletConnectSigner.sign: the request is built and sent, the answer
\* merged and decoded; without a connector the send throws
WalletConnectSignCall ==
    /\ wPc = "idle"
    /\ signer.kind = "walletconnect"
    /\ \E txnsToSign \in SignerInputs :
          /\ wInput' = txnsToSign
          /\ wAfter' = txnsToSign
          /\ wOp' = "sign"
          /\ IF ~signer.connector.present
             THEN /\ wPc' = "threw"
                  /\ wError' = "TypeError"
                  /\ UNCHANGED <<wResponse, wRequests, wOutput>>
             ELSE \E response \in Responses(txnsToSign) :
                     LET r == WalletConnectSign(txnsToSign, response)
                     IN  /\ wRequests' = Append(wRequests, RequestTxnsToSign(txnsToSign))
                         /\ wResponse' = response
                         /\ wOutput' = r.value
                         /\ wError' = r.error
                         /\ wPc' = IF r.error = NoError THEN "returned" ELSE "threw"
    /\ UNCHANGED <<signer, wAddress>>
    /\ UNCHANGED notSigner

\* KeyPairSigner.sign
KeyPairSignCall ==
    /\ wPc = "idle"
    /\ signer.kind = "keypair"
    /\ \E txnsToSign \in SignerInputs :
          /\ wInput' = txnsToSign
          /\ wAfter' = txnsToSign
          /\ wOutput' = KeyPairSign(signer.wallet, txnsToSign)
    /\ wOp' = "sign"
    /\ wPc' = "returned"
    /\ UNCHANGED <<signer, wResponse, wRequests, wAddress, wError>>
    /\ UNCHANGED notSigner

\* getWalletAddress of either signer (KeyPairSigner: lines 108-110)
GetWalletAddressCall ==
    /\ wPc = "idle"
    /\ wAddress' = IF signer.kind = "walletconnect"
                   THEN getWalletAddress(signer.connector)
                   ELSE signer.wallet.addr
    /\ wOp' = "getWalletAddress"
    /\ wPc' = "returned"
    /\ UNCHANGED <<signer, wInput, wAfter, wResponse, wRequests, wOutput, wError>>
    /\ UNCHANGED notSigner

SignerInit == GInit /\ SIdle /\ WInit /\ RIdle /\ TIdle /\ CIdle

SignerNext == WalletConnectSignCall \/ KeyPairSignCall \/ GetWalletAddressCall

SpecSigner == SignerInit /\ [][SignerNext]_vars

\* the bytes a base64 string decodes to
BytesOf(str) == [fmt |-> "bytes", body |-> str.body, grp |-> str.grp, sig |-> str.sig]

WalletConnectSignDone ==
    wOp = "sign" /\ signer.kind = "walletconnect" /\ wPc = "returned"

\* C11 (as claimed): for every index i of the request, the output of
\* WalletConnectSigner.sign at i is the decoded response[i] when that is
\* truthy, otherwise the decoded stxn of the input at i, or null when the
\* input had none.
C11_PositionalMerge ==
    WalletConnectSignDone =>
        \A i \in 1..Len(wInput) :
            /\ i <= Len(wOutput)
            /\ wOutput[i] =
                  IF i <= Len(wResponse) /\ Truthy(wResponse[i])
                  THEN BytesOf(wResponse[i])
                  ELSE IF "stxn" \in wInput[i].keys
                       THEN BytesOf(wInput[i].stxn)
                       ELSE NullValue

\* C12 (as claimed): sign, of either signer, returns an array of the length
\* and order of its input, whatever array the approval channel answered.
C12_SameLengthAndOrder ==
    (wOp = "sign" /\ (signer.kind = "keypair" \/ signer.connector.present)) =>
        /\ wPc = "returned"
        /\ Len(wOutput) = Len(wInput)
        /\ \A i \in 1..Len(wInput) :
              wOutput[i] # NullValue => wOutput[i].body = wInput[i].txn.body

PublicParams == {"signers", "txn", "message"}

\* e and f agree on the properties signers, txn and message
SamePublic(e, f) ==
    /\ e.keys \cap PublicParams = f.keys \cap PublicParams
    /\ e.txn = f.txn
    /\ e.message = f.message
    /\ e.signers = f.signers

\* C13: a call of WalletConnectSigner.sign sends exactly one request; each
\* envelope in it has no property but signers, txn and message, copied from
\* the input; a batch that differs only in stxn or in a private property
\* gives the same request.
C13_RequestOnlyPublicFields ==
    (wOp = "sign" /\ signer.kind = "walletconnect" /\ signer.connector.present) =>
        /\ Len(wRequests) = 1
        /\ Len(wRequests[1]) = Len(wInput)
        /\ \A i \in 1..Len(wInput) :
              /\ wRequests[1][i].keys = wInput[i].keys \cap PublicParams
              /\ wRequests[1][i].stxn = Undefined
              /\ wRequests[1][i].tag = ""
              /\ SamePublic(wRequests[1][i], wInput[i])
        /\ \A other \in SignerInputs :
              (/\ Len(other) = Len(wInput)
               /\ \A i \in 1..Len(wInput) : SamePublic(other[i], wInput[i]))
                  => RequestTxnsToSign(other) = wRequests[1]

\* a batch whose first envelope carries stxn and a private property was sent
C13_Witness ==
    /\ wOp = "sign"
    /\ signer.kind = "walletconnect"
    /\ Len(wRequests) = 1
    /\ Len(wInput) = 2
    /\ {"stxn", "tag"} \subseteq wInput[1].keys
    /\ "stxn" \notin wInput[2].keys

\* C14: WalletConnectSigner.getWalletAddress never throws; it returns
\* undefined without a connector, without accounts (missing or empty) or
\* when the connector is not connected, and the first account otherwise.
C14_WalletAddress ==
    (wOp = "getWalletAddress" /\ signer.kind = "walletconnect") =>
        LET c == signer.connector
        IN  /\ wPc = "returned"
            /\ wError = NoError
            /\ IF \/ ~c.present
                  \/ ~c.hasAccounts
                  \/ c.accounts = <<>>
                  \/ ~c.connected
               THEN wAddress = NoAddress
               ELSE wAddress = Head(c.accounts)

\* the address was asked of a disconnected connector that exposes accounts
C14_Witness ==
    /\ wOp = "getWalletAddress"
    /\ signer.kind = "walletconnect"
    /\ signer.connector.present
    /\ Len(signer.connector.accounts) = 2
    /\ ~signer.connector.connected

\* C15: KeyPairSigner.sign returns, for an envelope with stxn, the decoded
\* stxn as it was (not signed again), and for one without, its txn signed
\* with the held key; the input array is as it was.
C15_KeyPairSign ==
    (wOp = "sign" /\ signer.kind = "keypair") =>
        /\ wPc = "returned"
        /\ Len(wOutput) = Len(wInput)
        /\ wAfter = wInput
        /\ \A i \in 1..Len(wInput) :
              IF "stxn" \in wInput[i].keys
              THEN wOutput[i] = BytesOf(wInput[i].stxn)
              ELSE wOutput[i] = [fmt  |-> "bytes",
                                 body |-> wInput[i].txn.body,
                                 grp  |-> wInput[i].txn.grp,
                                 sig  |-> signer.wallet.sk]

\* a batch with a slot signed by another key and a slot not yet signed
C15_Witness ==
    /\ wOp = "sign"
    /\ signer.kind = "keypair"
    /\ Len(wInput) = 2
    /\ "stxn" \in wInput[1].keys
    /\ wInput[1].stxn.sig # signer.wallet.sk
    /\ "stxn" \notin wInput[2].keys

\* ---------------------------------------------------------- state reader
MaxEntries == 2

StateKeys == {"a", "b"}

\* the type discriminators a state entry may carry, and a missing one
MaxType == 3
NoType == [defined |-> FALSE, n |-> 0]
StateTypes == {NoType} \cup {[defined |-> TRUE, n |-> n] : n \in 0..MaxType}

\* parseInt of a value that is not a numeral is NaN, which equals no number
NaN == -1

parseInt(x) == IF x.defined THEN x.n ELSE NaN

\* the entry at position i of a state array: {key, value: {type, bytes, uint}}
\* bytes and uint are tied to the position so that entries can be told apart
StateEntry(key, type, i) ==
    [key |-> key, type |-> type, bytes |-> i, uint |-> i]

StateArrays ==
    UNION { { [i \in 1..n |-> StateEntry(k[i], t[i], i)] :
                k \in [1..n -> StateKeys], t \in [1..n -> StateTypes] } :
            n \in 0..MaxEntries }

\* what Array.prototype.pop returns on the empty array
NoEntry == [key |-> "undefined", type |-> NoType, bytes |-> 0, uint |-> 0]

filterByKey(arr, b64VarName) ==
    SelectSeq(arr, LAMBDA obj : obj.key = b64VarName)

shift(arr) == IF arr = <<>> THEN NoEntry ELSE arr[1]

pop(arr) == IF arr = <<>> THEN NoEntry ELSE arr[Len(arr)]

ReadReturned(kind, val) ==
    [pc |-> "returned", result |-> [kind |-> kind, val |-> val],
     error |-> NoError]

ReadThrew(message) ==
    [pc |-> "threw", result |-> [kind |-> "none", val |-> 0],
     error |-> message]

TypeIsNotBytes(type) == type # 1

TypeIsUint(type) == type = 2

\* the dispatch on value.type that ends both reads
decodeValue(value) ==
    LET type == parseInt(value.type)
    IN  IF type = 1 THEN ReadReturned("bytes", value.bytes)
        ELSE IF TypeIsUint(type) THEN ReadReturned("uint", value.uint)
        ELSE ReadThrew("Type is not handled")

getGlobalStateValueOrUndefined(globalState, b64VarName) ==
    LET state == pop(filterByKey(globalState, b64VarName))
    IN  IF state = NoEntry THEN ReadReturned("undefined", 0)
        ELSE decodeValue(state)

getGlobalStateValue(globalState, b64VarName) ==
    LET state == pop(filterByKey(globalState, b64VarName))
    IN  IF state = NoEntry THEN ReadThrew("No such global state variable.")
        ELSE decodeValue(state)

\* one element of apps-local-state: {id, "key-value"?}
AppIds == {1, 2}
AppLocalState(id, hasKV, kv) == [id |-> id, hasKV |-> hasKV, kv |-> kv]
NoAppInfo == AppLocalState(0, FALSE, <<>>)

\* the apps-local-state arrays in which the entries kv can appear
LocalStates(kv) ==
    { <<>>,
      << AppLocalState(2, TRUE, kv) >>,
      << AppLocalState(1, FALSE, <<>>) >>,
      << AppLocalState(1, TRUE, kv) >>,
      << AppLocalState(2, FALSE, <<>>), AppLocalState(1, TRUE, kv) >>,
      << AppLocalState(1, TRUE, kv), AppLocalState(2, TRUE, <<>>) >> }

getAppInfoInUserContext(localState, appIndex) ==
    LET matching == SelectSeq(localState, LAMBDA obj : obj.id = appIndex)
    IN  IF matching = <<>> THEN NoAppInfo ELSE matching[Len(matching)]

getLocalStateValue(localState, appIndex, b64VarName) ==
    LET appInfo == getAppInfoInUserContext(localState, appIndex)
    IN  IF appInfo = NoAppInfo THEN ReadThrew("user hasn't opted into app")
        ELSE IF ~appInfo.hasKV THEN ReadReturned("undefined", 0)
        ELSE LET variable == pop(filterByKey(appInfo.kv, b64VarName))
             IN  IF variable = NoEntry THEN ReadReturned("undefined", 0)
                 ELSE decodeValue(variable)

GetGlobalStateValueCall ==
    /\ rPc = "idle"
    /\ \E globalState \in StateArrays, b64VarName \in StateKeys :
          LET r == getGlobalStateValue(globalState, b64VarName)
          IN  /\ rOp' = "getGlobalStateValue"
              /\ rGlobalState' = globalState
              /\ rKey' = b64VarName
              /\ rPc' = r.pc
              /\ rResult' = r.result
              /\ rError' = r.error
    /\ UNCHANGED <<rLocalState, rAppIndex>>
    /\ UNCHANGED notReader

GetLocalStateValueCall ==
    /\ rPc = "idle"
    /\ \E kv \in StateArrays, b64VarName \in StateKeys :
          \E localState \in LocalStates(kv), appIndex \in AppIds :
              LET r == getLocalStateValue(localState, appIndex, b64VarName)
              IN  /\ rOp' = "getLocalStateValue"
                  /\ rLocalState' = localState
                  /\ rAppIndex' = appIndex
                  /\ rKey' = b64VarName
                  /\ rPc' = r.pc
                  /\ rResult' = r.result
                  /\ rError' = r.error
    /\ UNCHANGED rGlobalState
    /\ UNCHANGED notReader

ReaderInit == GInit /\ SIdle /\ WIdle /\ RIdle /\ TIdle /\ CIdle

ReaderNext == GetGlobalStateValueCall \/ GetLocalStateValueCall

SpecReader == ReaderInit /\ [][ReaderNext]_vars

\* the state array a finished read searched, <<>> if it had none to search
SearchedArray ==
    IF rOp = "getGlobalStateValue" THEN rGlobalState
    ELSE IF rOp = "getLocalStateValue"
         THEN LET appInfo == getAppInfoInUserContext(rLocalState, rAppIndex)
              IN  IF appInfo.hasKV THEN appInfo.kv ELSE <<>>
         ELSE <<>>

MatchingIndexes == { i \in 1..Len(SearchedArray) : SearchedArray[i].key = rKey }

LastMatchingIndex ==
    CHOOSE i \in MatchingIndexes : \A j \in MatchingIndexes : j <= i

ReadOutcome == [pc |-> rPc, result |-> rResult, error |-> rError]

\* C16: when several entries of the state array have the requested key, both
\* reads decode the last of them in array order.
C16_LastMatchWins ==
    (rPc # "idle" /\ Cardinality(MatchingIndexes) >= 2) =>
        LET last == SearchedArray[LastMatchingIndex]
        IN  /\ ReadOutcome = decodeValue(last)
            /\ rPc = "returned" => rResult.val = LastMatchingIndex

\* bytes under the key, then a uint under the same key: the uint is returned
C16_Witness ==
    /\ rOp = "getGlobalStateValue"
    /\ Len(rGlobalState) = 2
    /\ MatchingIndexes = {1, 2}
    /\ rGlobalState[1].type.n = 1
    /\ rGlobalState[2].type.n = 2
    /\ rResult = [kind |-> "uint", val |-> 2]

\* the user has opted into the application asked about
OptedIn == getAppInfoInUserContext(rLocalState, rAppIndex) # NoAppInfo

C18_TypeDispatch ==
    (rPc # "idle" /\ MatchingIndexes # {}) =>
        LET selected == SearchedArray[LastMatchingIndex]
        IN  IF selected.type = [defined |-> TRUE, n |-> 1]
            THEN /\ rPc = "returned"
                 /\ rResult = [kind |-> "bytes", val |-> selected.bytes]
            ELSE IF selected.type = [defined |-> TRUE, n |-> 2]
            THEN /\ rPc = "returned"
                 /\ rResult = [kind |-> "uint", val |-> selected.uint]
            ELSE /\ rPc = "threw"
                 /\ rError = "Type is not handled"
                 /\ rResult.kind = "none"

\* the selected entry of a local read has no type at all
C18_Witness ==
    /\ rOp = "getLocalStateValue"
    /\ MatchingIndexes # {}
    /\ SearchedArray[LastMatchingIndex].type = NoType
    /\ rPc = "threw"

\* ---------------------------------------------------------- assetsTransfer
MaxAssets == 2

\* the assets argument: the assetIndex of each item, in order
AssetLists == {<<>>} \cup SeqsUpTo(Bodies, MaxAssets)

NodeRejected == "node request failed"

\* one request to the node made on behalf of the call for assets[flow]
TransferRequest(op, flow) == [op |-> op, flow |-> flow]

\* an assetTransfer call: where it stands, what it resolved or rejected with
TransferFlow(pc, stxns, error) == [pc |-> pc, stxns |-> stxns, error |-> error]

\* makeAssetTransferTxnWithSuggestedParamsFromObject
makeAssetTransferTxn(assetId) == [body |-> assetId, grp |-> NoGroup]

\* assetTransfer after getTransactionParams resolved: builds the transaction,
\* has it grouped and signed, and resolves to the envelopes
assetTransferSettle(from_wallet, assetId) ==
    LET r == generateGroupTransactionSigningRequest(
                 << makeAssetTransferTxn(assetId) >>, << from_wallet >>)
    IN  IF r.error # NoError
        THEN TransferFlow("rejected", <<>>, r.error)
        ELSE TransferFlow("resolved", r.value, NoError)

\* the loop of assetsTransfer: every assetTransfer runs up to its first
\* await, which sends getTransactionParams; then Promise.all is awaited
AssetsTransferCall ==
    /\ tPc = "idle"
    /\ \E from_wallet \in Wallets, assets \in AssetLists :
          /\ tWallet' = from_wallet
          /\ tAssets' = assets
          /\ tFlows' = [i \in 1..Len(assets) |->
                           TransferFlow("params", <<>>, NoError)]
          /\ tNodeLog' = [i \in 1..Len(assets) |->
                             TransferRequest("getTransactionParams", i)]
    /\ tPc' = "awaiting"
    /\ UNCHANGED <<tResult, tError>>
    /\ UNCHANGED notTransfer

\* the node answers the getTransactionParams of one assetTransfer
ParamsResolve(i) ==
    /\ tFlows[i].pc = "params"
    /\ tFlows' = [tFlows EXCEPT ![i] = assetTransferSettle(tWallet, tAssets[i])]
    /\ UNCHANGED <<tPc, tWallet, tAssets, tNodeLog, tResult, tError>>
    /\ UNCHANGED notTransfer

\* the request fails: assetTransfer rejects with the node's error
ParamsReject(i) ==
    /\ tFlows[i].pc = "params"
    /\ tFlows' = [tFlows EXCEPT ![i] = TransferFlow("rejected", <<>>, NodeRejected)]
    /\ UNCHANGED <<tPc, tWallet, tAssets, tNodeLog, tResult, tError>>
    /\ UNCHANGED notTransfer

\* Promise.all resolved: return true
AssetsTransferReturn ==
    /\ tPc = "awaiting"
    /\ \A i \in 1..Len(tFlows) : tFlows[i].pc = "resolved"
    /\ tPc' = "returned"
    /\ tResult' = "true"
    /\ UNCHANGED <<tWallet, tAssets, tFlows, tNodeLog, tError>>
    /\ UNCHANGED notTransfer

\* Promise.all rejected with the error of an assetTransfer that rejected
AssetsTransferReject ==
    /\ tPc = "awaiting"
    /\ \E i \in 1..Len(tFlows) :
          /\ tFlows[i].pc = "rejected"
          /\ tError' = tFlows[i].error
    /\ tPc' = "rejected"
    /\ UNCHANGED <<tWallet, tAssets, tFlows, tNodeLog, tResult>>
    /\ UNCHANGED notTransfer

TransferInit == GInit /\ SIdle /\ WIdle /\ RIdle /\ TIdle /\ CIdle

TransferNext ==
    \/ AssetsTransferCall
    \/ \E i \in 1..Len(tFlows) : ParamsResolve(i)
    \/ \E i \in 1..Len(tFlows) : ParamsReject(i)
    \/ AssetsTransferReturn
    \/ AssetsTransferReject

SpecTransfer == TransferInit /\ [][TransferNext]_vars

\* the node was sent the signed transfer of assets[i]
TransferBroadcast(i) ==
    \E k \in 1..Len(tNodeLog) :
        tNodeLog[k] = TransferRequest("sendRawTransaction", i)

\* the node was asked for, and reported, the confirmation of that transfer
TransferConfirmed(i) ==
    \E k \in 1..Len(tNodeLog) :
        tNodeLog[k] = TransferRequest("pendingTransactionInformation", i)

\* C19 (as claimed): assetsTransfer returns true only after the transfer of
\* every listed asset was broadcast to the node and confirmed.
C19_TrueOnlyAfterAllConfirmed ==
    (tPc = "returned" /\ tResult = "true") =>
        \A i \in 1..Len(tAssets) :
            TransferBroadcast(i) /\ TransferConfirmed(i)

\* ------------------------------------------ commonApplicationOptIntoAssets
\* the calls of commonApplicationOptIntoAsset that run interleaved
FlowIds == {1, 2}

\* assetIndices: one asset per call, no asset twice
AssetChoices ==
    { a \in [FlowIds -> Bodies] : \A f, g \in FlowIds : f # g => a[f] # a[g] }

NoId == <<>>
NotBroadcast == [t |-> "none", n |-> 0]

\* makeApplicationNoOpTxnFromObject with foreignAssets: [assetIndex]
makeApplicationNoOpTxn(assetIndex) == [body |-> assetIndex, grp |-> NoGroup]

\* the transaction ids the node can come to know
NodeTxIds ==
    { rawTxID(assignGroupID(<< makeApplicationNoOpTxn(a) >>)[1]) : a \in Bodies }

\* the id the node answers a broadcast with: that of the first transaction
NodeTxId(batch) == <<batch[1].body, batch[1].grp>>

\* the locals of one call
OptInFlow(pc, assetIndex) ==
    [pc |-> pc, asset |-> assetIndex, stxns |-> <<>>, txId |-> NoId,
     r0 |-> 0, lastRound |-> 0, polls |-> 0, result |-> NoResponse,
     error |-> NoError]

\* pendingTransactionInformation(id) as the node answers it now
PendingInfoOf(id) == [confirmedRound |-> nTxs[id]]

\* lastRound++ on a field that all the calls share
MissedPollShared(flows, f) ==
    [g \in DOMAIN flows |->
        IF g = f
        THEN [flows[g] EXCEPT !.pc = "wait", !.lastRound = @ + 1, !.polls = @ + 1]
        ELSE [flows[g] EXCEPT !.lastRound = @ + 1]]

\* awaitForConfirmation after a poll that found no confirmation: lastRound++
\* on the call's own local (index.ts line 58)
MissedPoll(flows, f) ==
    [flows EXCEPT ![f].pc = "wait", ![f].lastRound = @ + 1, ![f].polls = @ + 1]

CInit ==
    /\ cPc = "idle"
    /\ cWallet = AbsentWallet
    /\ cFlows = <<>>
    /\ nRound \in 0..MaxStartRound
    /\ nTxs = [id \in NodeTxIds |-> NotBroadcast]

\* the loop of commonApplicationOptIntoAssets: each call runs up to its
\* first await (or throws at once without a wallet); then Promise.all
OptIntoAssetsCall ==
    /\ cPc = "idle"
    /\ \E serverWallet \in FalseyWallets, assetIndices \in AssetChoices :
          /\ cWallet' = serverWallet
          /\ cFlows' = [f \in FlowIds |->
                IF ~serverWallet.present
                THEN [OptInFlow("rejected", assetIndices[f])
                         EXCEPT !.error = "serverWallet is undefined"]
                ELSE OptInFlow("params", assetIndices[f])]
    /\ cPc' = "awaiting"
    /\ UNCHANGED <<nRound, nTxs>>
    /\ UNCHANGED notConcurrent

\* getTransactionParams resolved: build the call's transaction and have it
\* grouped and signed (index.ts lines 760-775)
GroupAndSign(f) ==
    /\ cFlows[f].pc = "params"
    /\ LET r == generateGroupTransactionSigningRequest(
                    << makeApplicationNoOpTxn(cFlows[f].asset) >>, << cWallet >>)
       IN  cFlows' = IF r.error # NoError
                     THEN [cFlows EXCEPT ![f].pc = "rejected", ![f].error = r.error]
                     ELSE [cFlows EXCEPT ![f].pc = "signed", ![f].stxns = r.value]
    /\ UNCHANGED <<cPc, cWallet, nRound, nTxs>>
    /\ UNCHANGED notConcurrent

\* submitSignedTransactions up to the answer of the broadcast
Broadcast(f) ==
    /\ cFlows[f].pc = "signed"
    /\ IF DecodeThrows(cFlows[f].stxns)
       THEN /\ cFlows' = [cFlows EXCEPT ![f].pc = "rejected", ![f].error = "TypeError"]
            /\ UNCHANGED nTxs
       ELSE LET id == NodeTxId(DecodeAll(cFlows[f].stxns))
            IN  /\ nTxs' = [nTxs EXCEPT ![id] = JsNull]
                /\ cFlows' = [cFlows EXCEPT ![f].pc = "status", ![f].txId = id]
    /\ UNCHANGED <<cPc, cWallet, nRound>>
    /\ UNCHANGED notConcurrent

\* awaitForConfirmation, lines 45-46
FlowReadStatus(f) ==
    /\ cFlows[f].pc = "status"
    /\ cFlows' = [cFlows EXCEPT ![f].pc = "poll", ![f].r0 = nRound,
                                ![f].lastRound = nRound]
    /\ UNCHANGED <<cPc, cWallet, nRound, nTxs>>
    /\ UNCHANGED notConcurrent

\* awaitForConfirmation, lines 48-58
FlowPoll(f) ==
    /\ cFlows[f].pc = "poll"
    /\ cFlows[f].polls < MaxPolls
    /\ cFlows' = IF IsConfirmed(PendingInfoOf(cFlows[f].txId))
                 THEN [cFlows EXCEPT ![f].pc = "refetch"]
                 ELSE MissedPoll(cFlows, f)
    /\ UNCHANGED <<cPc, cWallet, nRound, nTxs>>
    /\ UNCHANGED notConcurrent

\* awaitForConfirmation, line 59
FlowWaitBlock(f) ==
    /\ cFlows[f].pc = "wait"
    /\ cFlows' = [cFlows EXCEPT ![f].pc = "poll"]
    /\ UNCHANGED <<cPc, cWallet, nRound, nTxs>>
    /\ UNCHANGED notConcurrent

\* sendRawTransaction, lines 76-88, and the return of the call
FlowRefetch(f) ==
    /\ cFlows[f].pc = "refetch"
    /\ cFlows' = [cFlows EXCEPT ![f].pc = "done",
                                ![f].result = PendingInfoOf(cFlows[f].txId)]
    /\ UNCHANGED <<cPc, cWallet, nRound, nTxs>>
    /\ UNCHANGED notConcurrent

\* the ledger adds a block
NodeNextRound ==
    /\ cPc # "idle"
    /\ nRound < MaxConfirmedRound
    /\ nRound' = nRound + 1
    /\ UNCHANGED <<cPc, cWallet, cFlows, nTxs>>
    /\ UNCHANGED notConcurrent

\* the ledger includes a pending transaction in its last block
NodeConfirm(id) ==
    /\ nTxs[id] = JsNull
    /\ nRound > 0
    /\ nTxs' = [nTxs EXCEPT ![id] = JsNumber(nRound)]
    /\ UNCHANGED <<cPc, cWallet, cFlows, nRound>>
    /\ UNCHANGED notConcurrent

\* Promise.all resolved
OptIntoAssetsReturn ==
    /\ cPc = "awaiting"
    /\ \A f \in FlowIds : cFlows[f].pc = "done"
    /\ cPc' = "returned"
    /\ UNCHANGED <<cWallet, cFlows, nRound, nTxs>>
    /\ UNCHANGED notConcurrent

\* Promise.all rejected
OptIntoAssetsReject ==
    /\ cPc = "awaiting"
    /\ \E f \in FlowIds : cFlows[f].pc = "rejected"
    /\ cPc' = "rejected"
    /\ UNCHANGED <<cWallet, cFlows, nRound, nTxs>>
    /\ UNCHANGED notConcurrent

ConcurrentInit == GInit /\ SIdle /\ WIdle /\ RIdle /\ TIdle /\ CInit

ConcurrentNext ==
    \/ OptIntoAssetsCall
    \/ \E f \in DOMAIN cFlows : GroupAndSign(f)
    \/ \E f \in DOMAIN cFlows : Broadcast(f)
    \/ \E f \in DOMAIN cFlows : FlowReadStatus(f)
    \/ \E f \in DOMAIN cFlows : FlowPoll(f)
    \/ \E f \in DOMAIN cFlows : FlowWaitBlock(f)
    \/ \E f \in DOMAIN cFlows : FlowRefetch(f)
    \/ NodeNextRound
    \/ \E id \in NodeTxIds : NodeConfirm(id)
    \/ OptIntoAssetsReturn
    \/ OptIntoAssetsReject

SpecConcurrent == ConcurrentInit /\ [][ConcurrentNext]_vars

\* what a call would build for its asset with no other call around
AloneEnvelopes(f) ==
    generateGroupTransactionSigningRequest(
        << makeApplicationNoOpTxn(cFlows[f].asset) >>, << cWallet >>).value

AloneTxId(f) ==
    rawTxID(assignGroupID(<< makeApplicationNoOpTxn(cFlows[f].asset) >>)[1])

\* C20: of calls interleaved at their awaits on distinct assets, each holds
\* the envelopes and the group id of its own batch, polls its own
\* transaction id, tracks its own round (the round it read plus its own
\* missed polls) and returns the node's record of its own transaction.
C20_FlowsDoNotInterfere ==
    cPc # "idle" =>
        \A f \in FlowIds :
            LET flow == cFlows[f]
            IN  /\ flow.stxns # <<>> =>
                      /\ flow.stxns = AloneEnvelopes(f)
                      /\ flow.stxns[1].txn.grp = <<(<<flow.asset, NoGroup>>)>>
                /\ flow.txId # NoId =>
                      /\ flow.txId = AloneTxId(f)
                      /\ \A g \in FlowIds \ {f} : cFlows[g].txId # flow.txId
                /\ flow.pc \in {"poll", "wait", "refetch", "done"} =>
                      flow.lastRound = flow.r0 + flow.polls
                /\ flow.pc = "done" =>
                      /\ flow.result = PendingInfoOf(flow.txId)
                      /\ IsConfirmed(flow.result)

\* both calls returned, each after polls that missed, with records of
\* different rounds
C20_Witness ==
    /\ cPc = "returned"
    /\ \A f \in FlowIds : cFlows[f].pc = "done" /\ cFlows[f].polls >= 1
    /\ cFlows[1].result # cFlows[2].result
    /\ cFlows[1].lastRound # cFlows[2].lastRound

\* --------------------------------------------------- awaitForConfirmation
\* the positions in the node's log of the status() reads
StatusCalls == {k \in 1..Len(nodeLog) : nodeLog[k].op = "status"}

\* the statusAfterBlock waits, in order
WaitCalls == SelectSeq(nodeLog, LAMBDA c : c.op = "statusAfterBlock")

\* C21: awaitForConfirmation reads the node's round r0 once, before its
\* first poll; its requests after that alternate poll, wait, poll, ..., so
\* one wait lies between two consecutive polls; the k-th wait is for round
\* r0 + k, and the tracked round is r0 plus the number of unconfirmed polls.
C21_OneReadThenRoundPerPoll ==
    /\ Cardinality(StatusCalls) <= 1
    /\ sPc \in {"poll", "wait", "refetch", "done"} => StatusCalls = {2}
    /\ StatusCalls = {2} =>
          LET r0 == nodeLog[2].round
              polls == WaiterPolls
              missed == Cardinality({k \in 1..Len(polls) : ~IsConfirmed(polls[k].resp)})
          IN  /\ \A k \in 1..Len(WaitCalls) : WaitCalls[k].round = r0 + k
              /\ \A k \in 1..Len(polls) :
                    nodeLog[2 * k + 1].op = "pendingTransactionInformation"
              /\ \A k \in 1..Len(WaitCalls) :
                    nodeLog[2 * k + 2].op = "statusAfterBlock"
              /\ Len(WaitCalls) \in {Len(polls) - 1, Len(polls)}
              /\ sPc = "poll" => Len(WaitCalls) = Len(polls)
              /\ lastRound = r0 + missed

\* the waiter returned after two waits that began from round 1
C21_Witness ==
    /\ sPc = "done"
    /\ StatusCalls = {2}
    /\ nodeLog[2].round = 1
    /\ Len(WaitCalls) = 2
    /\ WaitCalls[2].round = 3
    /\ lastRound = 3

====
